---- MODULE Spec2Model ----
(***************************************************************************)
(* Model of observer_pattern_python.py: JobRouter (an insertion-ordered    *)
(* dict from lower-cased keyword to job), DataProducer.produce (a lazy     *)
(* generator) and the driver loop that consumes it.                        *)
(*                                                                         *)
(* A Python str is modelled as a sequence of one-character strings, so     *)
(* that str.lower() and the `in` substring test are computed, not assumed. *)
(***************************************************************************)
EXTENDS Naturals, Sequences, FiniteSets

VARIABLES
    jobs,   \* JobRouter.jobs: sequence of [key, job], in dict (insertion) order
    pc,     \* "idle" | "gen" (generator running) | "yielded" (suspended at yield) | "done"
    files,  \* the list given to produce
    i,      \* 1-based position of the generator's for loop in files
    out,    \* everything printed so far, one record per print call
    last    \* the last top-level call made on the router or the producer

vars == <<jobs, pc, files, i, out, last>>

----------------------------------------------------------------------------
\* Bounds

\* longest list given to produce
MaxFiles == 3

----------------------------------------------------------------------------
\* Strings

UpperChars == <<"A", "B", "C", "D", "E", "F", "G", "H", "I", "J", "K", "L", "M",
                "N", "O", "P", "Q", "R", "S", "T", "U", "V", "W", "X", "Y", "Z">>

LowerChars == <<"a", "b", "c", "d", "e", "f", "g", "h", "i", "j", "k", "l", "m",
                "n", "o", "p", "q", "r", "s", "t", "u", "v", "w", "x", "y", "z">>

\* the lower-case letter of every upper-case letter
ToLower ==
    [c \in { UpperChars[n] : n \in DOMAIN UpperChars } |->
        LowerChars[CHOOSE n \in DOMAIN UpperChars : UpperChars[n] = c]]

\* the upper-case letter of every lower-case letter
ToUpper ==
    [c \in { LowerChars[n] : n \in DOMAIN LowerChars } |->
        UpperChars[CHOOSE n \in DOMAIN LowerChars : LowerChars[n] = c]]

\* str.lower() on one character: only the letters A..Z change
LowerChar(c) == IF c \in DOMAIN ToLower THEN ToLower[c] ELSE c

\* str.lower()
Lower(s) == [n \in 1..Len(s) |-> LowerChar(s[n])]

\* s.startswith(t) in place of `t in s`
Contains_prefix(s, t) ==
    /\ Len(t) <= Len(s)
    /\ SubSeq(s, 1, Len(t)) = t

\* `t in s` for two str
Contains(s, t) ==
    /\ Len(t) <= Len(s)
    /\ \E o \in 0..(Len(s) - Len(t)) : SubSeq(s, o + 1, o + Len(t)) = t

\* s with the case of every letter flipped; used to spell inputs, not by the program
Swapcase(s) ==
    [n \in 1..Len(s) |->
        IF s[n] \in DOMAIN ToLower THEN ToLower[s[n]]
        ELSE IF s[n] \in DOMAIN ToUpper THEN ToUpper[s[n]]
        ELSE s[n]]

\* the literal "stream" of produce
StreamLiteral == <<"s", "t", "r", "e", "a", "m">>

----------------------------------------------------------------------------
\* Jobs

None == "None"

ETLJob == "ETLJob"
StreamingJob == "StreamingJob"
AnalyticsJob == "AnalyticsJob"
ValidationJob == "ValidationJob"

\* the concrete Job classes
Jobs == {ETLJob, StreamingJob, AnalyticsJob, ValidationJob}

----------------------------------------------------------------------------
\* Inputs

\* keywords given to register_job: "ETL", "etl", "log"
Keywords == { <<"E", "T", "L">>, <<"e", "t", "l">>, <<"l", "o", "g">> }

\* file names given to produce and route:
\* "etl.log", "Stream.LOG", "stream.csv", "x.csv"
FileNames == {
    <<"e", "t", "l", ".", "l", "o", "g">>,
    <<"S", "t", "r", "e", "a", "m", ".", "L", "O", "G">>,
    <<"s", "t", "r", "e", "a", "m", ".", "c", "s", "v">>,
    <<"x", ".", "c", "s", "v">> }

\* the file names given to route: those of produce, in two spellings
\* ("ETL.LOG" beside "etl.log", ...)
RouteInputs == FileNames \cup { Swapcase(x) : x \in FileNames }

RECURSIVE SeqsUpTo(_, _)
\* all lists over S of length at most n
SeqsUpTo(S, n) ==
    IF n = 0 THEN { <<>> }
    ELSE LET shorter == SeqsUpTo(S, n - 1)
         IN  shorter \cup { Append(s, x) : s \in { t \in shorter : Len(t) = n - 1 }, x \in S }

FileLists == SeqsUpTo(FileNames, MaxFiles)

----------------------------------------------------------------------------
\* JobRouter

HasKey(js, key) == \E n \in DOMAIN js : js[n].key = key

\* dict.setdefault in place of assignment: a present key keeps its old job
DictSet_keep(js, key, h) ==
    IF HasKey(js, key) THEN js ELSE Append(js, [key |-> key, job |-> h])

\* `del js[key]` before the assignment: a present key moves to the end
DictSet_move(js, key, h) ==
    Append(SelectSeq(js, LAMBDA e : e.key # key), [key |-> key, job |-> h])

\* js[key] = h on an insertion-ordered dict: a present key keeps its place
DictSet(js, key, h) ==
    IF HasKey(js, key)
    THEN [n \in DOMAIN js |-> IF js[n].key = key THEN [key |-> key, job |-> h] ELSE js[n]]
    ELSE Append(js, [key |-> key, job |-> h])

\* js.get(key)
DictGet(js, key) ==
    IF HasKey(js, key) THEN js[CHOOSE n \in DOMAIN js : js[n].key = key].job ELSE None

\* the keyword stored as given, without .lower()
Registered_cased(js, keyword, h) == DictSet(js, keyword, h)

\* the registry after register_job(keyword, job_instance)
Registered(js, keyword, h) == DictSet(js, Lower(keyword), h)

RECURSIVE RouteFrom_last(_, _, _)
\* the loop without its early return: the last matching key wins
RouteFrom_last(js, filename, n) ==
    IF n > Len(js) THEN None
    ELSE LET later == RouteFrom_last(js, filename, n + 1)
         IN  IF later # None THEN later
             ELSE IF Contains(Lower(filename), js[n].key) THEN js[n].job
             ELSE None

RECURSIVE RouteFrom_cased(_, _, _)
\* `key in filename`, without .lower()
RouteFrom_cased(js, filename, n) ==
    IF n > Len(js) THEN None
    ELSE IF Contains(filename, js[n].key) THEN js[n].job
    ELSE RouteFrom_cased(js, filename, n + 1)

RECURSIVE RouteFrom(_, _, _)
\* the for loop of route, from the n-th item of the dict on
RouteFrom(js, filename, n) ==
    IF n > Len(js) THEN None
    ELSE IF Contains(Lower(filename), js[n].key) THEN js[n].job
    ELSE RouteFrom(js, filename, n + 1)

route(js, filename) == RouteFrom(js, filename, 1)

----------------------------------------------------------------------------
\* DataProducer and the driver loop

\* "stream" in filename.lower()
IsStream(filename) == Contains(Lower(filename), StreamLiteral)

\* `for filename in reversed(filenames)`
Pos_reversed(fs, n) == Len(fs) + 1 - n

\* `for filename in filenames`: the place in fs of the n-th iteration's file
Pos(fs, n) == n

Notice(kind, n, filename) == [kind |-> kind, idx |-> n, name |-> filename, job |-> None]

\* what job.update(filename) prints
Update(job, n, filename) == [kind |-> "update", idx |-> n, name |-> filename, job |-> job]

\* new_data_arrived without its else branch
new_data_arrived_silent(js, n, filename) ==
    LET job == route(js, filename)
    IN  IF job # None
        THEN << Notice("batch", n, filename), Update(job, n, filename) >>
        ELSE << Notice("batch", n, filename) >>

\* what new_data_arrived prints for the file at place n
new_data_arrived(js, n, filename) ==
    LET job == route(js, filename)
    IN  IF job # None
        THEN << Notice("batch", n, filename), Update(job, n, filename) >>
        ELSE << Notice("batch", n, filename), Notice("nomatch", n, filename) >>

\* what the body of the driver loop prints for the yielded file
DriverHandle(js, n, filename) ==
    LET job == route(js, filename)
    IN  IF job # None
        THEN << Update(job, n, filename) >>
        ELSE << Notice("nomatch", n, filename) >>

Call(op, arg, job, old) == [op |-> op, arg |-> arg, job |-> job, old |-> old]

Init ==
    /\ jobs = <<>>
    /\ pc = "idle"
    /\ files = <<>>
    /\ i = 1
    /\ out = <<>>
    /\ last = Call("none", <<>>, None, None)

register_job(keyword, h) ==
    /\ pc = "idle"
    /\ jobs' = Registered(jobs, keyword, h)
    /\ last' = Call("register_job", keyword, h, DictGet(jobs, Lower(keyword)))
    /\ UNCHANGED <<pc, files, i, out>>

\* a call of route from outside the producer
RouteCall(filename) ==
    /\ pc = "idle"
    /\ last' = Call("route", filename, route(jobs, filename), None)
    /\ UNCHANGED <<jobs, pc, files, i, out>>

\* `for file in producer.produce(fs)`: the generator is created and first resumed
produce(fs) ==
    /\ pc = "idle"
    /\ pc' = "gen"
    /\ files' = fs
    /\ i' = 1
    /\ last' = Call("produce", <<>>, None, None)
    /\ UNCHANGED <<jobs, out>>

\* one iteration of produce's loop on a file without "stream"
GenBatch ==
    /\ pc = "gen"
    /\ i <= Len(files)
    /\ ~IsStream(files[Pos(files, i)])
    /\ out' = out \o new_data_arrived(jobs, Pos(files, i), files[Pos(files, i)])
    /\ i' = i + 1
    /\ UNCHANGED <<jobs, pc, files, last>>

\* a stream file is announced but never yielded
GenStream_noyield ==
    /\ pc = "gen"
    /\ i <= Len(files)
    /\ IsStream(files[Pos(files, i)])
    /\ out' = Append(out, Notice("streaming", Pos(files, i), files[Pos(files, i)]))
    /\ i' = i + 1
    /\ UNCHANGED <<jobs, pc, files, last>>

\* one iteration on a file with "stream": print, then suspend at yield
GenStream ==
    /\ pc = "gen"
    /\ i <= Len(files)
    /\ IsStream(files[Pos(files, i)])
    /\ out' = Append(out, Notice("streaming", Pos(files, i), files[Pos(files, i)]))
    /\ pc' = "yielded"
    /\ UNCHANGED <<jobs, files, i, last>>

\* the body of the driver loop on the yielded file, then the generator resumes
DriverBody ==
    /\ pc = "yielded"
    /\ out' = out \o DriverHandle(jobs, Pos(files, i), files[Pos(files, i)])
    /\ pc' = "gen"
    /\ i' = i + 1
    /\ UNCHANGED <<jobs, files, last>>

\* a `for ... else` clause that reports when the loop ends
GenReturn_else ==
    /\ pc = "gen"
    /\ i > Len(files)
    /\ pc' = "done"
    /\ out' = Append(out, Notice("nomatch", 0, <<>>))
    /\ UNCHANGED <<jobs, files, i, last>>

\* the list is exhausted: the generator returns and the driver loop ends
GenReturn ==
    /\ pc = "gen"
    /\ i > Len(files)
    /\ pc' = "done"
    /\ UNCHANGED <<jobs, files, i, out, last>>

Run == GenBatch \/ GenStream \/ DriverBody \/ GenReturn

Next ==
    \/ \E k \in Keywords, h \in Jobs : register_job(k, h)
    \/ \E x \in FileNames : RouteCall(x)
    \/ \E fs \in FileLists : produce(fs)
    \/ GenBatch
    \/ GenStream
    \/ DriverBody
    \/ GenReturn

Spec == Init /\ [][Next]_vars

\* the program is single-threaded and never waits: a started run keeps stepping
FairSpec == Spec /\ WF_vars(Run)

----------------------------------------------------------------------------
\* The __main__ script

\* the four register_job calls, in order
MainRegs == <<
    [keyword |-> <<"e", "t", "l">>, job |-> ETLJob],
    [keyword |-> <<"s", "t", "r", "e", "a", "m", "i", "n", "g">>, job |-> StreamingJob],
    [keyword |-> <<"a", "n", "a", "l", "y", "t", "i", "c", "s">>, job |-> AnalyticsJob],
    [keyword |-> <<"v", "a", "l", "i", "d", "a", "t", "i", "o", "n">>, job |-> ValidationJob] >>

sales_etl == <<"s", "a", "l", "e", "s", "_", "e", "t", "l", "_", "2", "0", "2", "5", ".", "c", "s", "v">>

clickstream_streaming == <<"c", "l", "i", "c", "k", "s", "t", "r", "e", "a", "m", "_", "s", "t", "r", "e", "a", "m", "i", "n", "g", "_", "2", "0", "2", "5", ".", "c", "s", "v">>

monthly_analytics == <<"m", "o", "n", "t", "h", "l", "y", "_", "a", "n", "a", "l", "y", "t", "i", "c", "s", "_", "2", "0", "2", "5", ".", "c", "s", "v">>

user_validation == <<"u", "s", "e", "r", "_", "v", "a", "l", "i", "d", "a", "t", "i", "o", "n", "_", "2", "0", "2", "5", ".", "c", "s", "v">>

unknown_file == <<"u", "n", "k", "n", "o", "w", "n", "_", "f", "i", "l", "e", "_", "2", "0", "2", "5", ".", "c", "s", "v">>

\* the list `files` of the script
MainFiles == <<sales_etl, clickstream_streaming, monthly_analytics, user_validation, unknown_file>>

\* the script's list, and every other list of its names that is no longer
MainFileLists == SeqsUpTo({ MainFiles[n] : n \in DOMAIN MainFiles }, Len(MainFiles))

\* the next register_job call of the script
MainRegister ==
    /\ Len(jobs) < Len(MainRegs)
    /\ register_job(MainRegs[Len(jobs) + 1].keyword, MainRegs[Len(jobs) + 1].job)

\* the driver loop starts once the four jobs are registered
MainProduce ==
    /\ pc = "idle"
    /\ Len(jobs) = Len(MainRegs)
    /\ \E fs \in MainFileLists : produce(fs)

NextMain ==
    \/ MainRegister
    \/ MainProduce
    \/ GenBatch
    \/ GenStream
    \/ DriverBody
    \/ GenReturn

SpecMain == Init /\ [][NextMain]_vars

----------------------------------------------------------------------------
\* Vocabulary of the properties

\* the handling outcomes printed so far: job.update lines and "No job matched" lines
Outcomes == SelectSeq(out, LAMBDA e : e.kind \in {"update", "nomatch"})

\* how many lines of the given kind were printed for the file at place n
Count(kind, n) == Cardinality({ p \in DOMAIN out : out[p].kind = kind /\ out[p].idx = n })

\* the places of files whose iteration is over
Handled == 1..(i - 1)

\* the key of the n-th entry is in x, case-insensitively
Matches(n, x) == Contains(Lower(x), jobs[n].key)

\* the n-th entry is the first, in dict order, whose key is in x
FirstMatch(n, x) == Matches(n, x) /\ \A m \in 1..(n - 1) : ~Matches(m, x)

\* x and y differ at most in the case of their letters
SameLetters(x, y) ==
    /\ Len(x) = Len(y)
    /\ \A n \in 1..Len(x) :
          \/ x[n] = y[n]
          \/ (x[n] \in DOMAIN ToLower /\ ToLower[x[n]] = y[n])
          \/ (x[n] \in DOMAIN ToUpper /\ ToUpper[x[n]] = y[n])

KeySeq(js) == [n \in DOMAIN js |-> js[n].key]

----------------------------------------------------------------------------
\* C1

----------------------------------------------------------------------------
\* C2

\* C2: whenever a registered key is in the lower-cased file name and no key
\* earlier in the dict is, route returns the job under that key.
C2_FirstMatchWins ==
    \A x \in RouteInputs : \A n \in DOMAIN jobs :
        FirstMatch(n, x) => route(jobs, x) = jobs[n].job

\* two keys are in a file name, under different jobs, and route was called on it
C2_Witness ==
    /\ last.op = "route"
    /\ \E n, m \in DOMAIN jobs :
          /\ n < m
          /\ FirstMatch(n, last.arg) /\ Matches(m, last.arg)
          /\ jobs[n].job # jobs[m].job
          /\ last.job = jobs[n].job

----------------------------------------------------------------------------
\* C3

\* C3: the case of the letters of a file name does not change what route returns,
\* and the case of the letters of a keyword does not change what register_job
\* stores.
C3_CaseInsensitive ==
    /\ \A x, y \in RouteInputs :
          SameLetters(x, y) => route(jobs, x) = route(jobs, y)
    /\ \A k \in Keywords, h \in Jobs :
          Registered(jobs, k, h) = Registered(jobs, Swapcase(k), h)

\* the last call registered a keyword with capitals, and a lower-case file name
\* routes to its job
C3_Witness ==
    /\ last.op = "register_job"
    /\ last.arg # Lower(last.arg)
    /\ \E x \in RouteInputs :
          /\ x = Lower(x)
          /\ \E n \in DOMAIN jobs :
                FirstMatch(n, x) /\ jobs[n].key = Lower(last.arg)
          /\ route(jobs, x) = last.job

----------------------------------------------------------------------------
\* C4

\* C4: after register_job(k, h) the dict holds exactly one entry for lower(k), it
\* maps to h, and every file name whose first matching key is lower(k) routes to h.
C4_Overwrite ==
    last.op = "register_job" =>
        /\ Cardinality({ n \in DOMAIN jobs : jobs[n].key = Lower(last.arg) }) = 1
        /\ DictGet(jobs, Lower(last.arg)) = last.job
        /\ \A x \in RouteInputs : \A n \in DOMAIN jobs :
              (FirstMatch(n, x) /\ jobs[n].key = Lower(last.arg))
                  => route(jobs, x) = last.job

\* the last call replaced another job under its keyword, and a file name routes
\* to the new job through that keyword
C4_Witness ==
    /\ last.op = "register_job"
    /\ last.old # None
    /\ last.old # last.job
    /\ \E x \in RouteInputs : \E n \in DOMAIN jobs :
          /\ FirstMatch(n, x)
          /\ jobs[n].key = Lower(last.arg)
          /\ route(jobs, x) = last.job

----------------------------------------------------------------------------
\* C5

\* C5: a file name with no registered key in it routes to None; once its iteration
\* is over, exactly one "No job matched" line and no job.update line were printed
\* for it, on the batch path and on the streaming path alike, and the loop went on
\* to the next file.
C5_NoMatch ==
    /\ \A x \in RouteInputs :
          (\A n \in DOMAIN jobs : ~Matches(n, x)) => route(jobs, x) = None
    /\ \A n \in Handled :
          (\A m \in DOMAIN jobs : ~Matches(m, files[n]))
              => /\ Count("nomatch", n) = 1
                 /\ Count("update", n) = 0
    /\ pc = "done" => i = Len(files) + 1

\* a finished run, with jobs registered, that reported no match for a batch file
\* and for a stream file and handled a file after a miss
C5_Witness ==
    /\ pc = "done"
    /\ jobs # <<>>
    /\ \E a, b \in DOMAIN files :
          /\ ~IsStream(files[a]) /\ Count("nomatch", a) = 1
          /\ IsStream(files[b]) /\ Count("nomatch", b) = 1
    /\ \E p, q \in DOMAIN out :
          p < q /\ out[p].kind = "nomatch" /\ out[q].kind = "update"

----------------------------------------------------------------------------
\* C6

\* a handling outcome without the place of its file: <<file name, job or None>>
Outcome(e) == <<e.name, e.job>>

OutcomeList == [p \in DOMAIN Outcomes |-> Outcome(Outcomes[p])]

----------------------------------------------------------------------------
\* C7

\* C7: a started run ends, and when it has ended every file of the list, batch or
\* stream, has exactly one handling outcome: one job.update line or one
\* "No job matched" line.
C7_Completes ==
    /\ (pc \in {"gen", "yielded"}) ~> (pc = "done")
    /\ [](pc = "done" =>
            \A n \in DOMAIN files : Count("update", n) + Count("nomatch", n) = 1)

\* a finished run over a longest list with batch and stream files, matched and not
C7_Witness ==
    /\ pc = "done"
    /\ Len(files) = MaxFiles
    /\ \E a, b \in DOMAIN files : IsStream(files[a]) /\ ~IsStream(files[b])
    /\ \E p, q \in DOMAIN out : out[p].kind = "update" /\ out[q].kind = "nomatch"

----------------------------------------------------------------------------
\* C8

\* C8: a run over the empty list prints nothing, never suspends at a yield, and
\* its first step ends it.
C8_EmptyList ==
    /\ []((pc # "idle" /\ files = <<>>) => (out = <<>> /\ pc \in {"gen", "done"}))
    /\ [][(pc = "gen" /\ files = <<>>) => (pc' = "done" /\ out' = <<>>)]_vars

\* a run over the empty list, with jobs registered, is over
C8_Witness ==
    /\ pc = "done"
    /\ files = <<>>
    /\ jobs # <<>>
    /\ out = <<>>

----------------------------------------------------------------------------
\* C9

\* C9: every key of the dict is its own lower-cased form, no two entries share a
\* key, and only a register_job call changes the dict.
C9_Registry ==
    /\ [](\A n \in DOMAIN jobs :
            /\ jobs[n].key = Lower(jobs[n].key)
            /\ \A m \in DOMAIN jobs : jobs[m].key = jobs[n].key => m = n)
    /\ [][jobs' # jobs => last'.op = "register_job"]_vars

\* a keyword with capitals was registered over a present key of a dict of two
\* keys
C9_Witness ==
    /\ last.op = "register_job"
    /\ last.arg # Lower(last.arg)
    /\ last.old # None
    /\ Len(jobs) = 2
    /\ HasKey(jobs, Lower(last.arg))

----------------------------------------------------------------------------
\* C10

\* C10: registering a key that is present replaces its job and nothing else: the
\* keys keep their order, the other jobs stay, and every file name keeps the
\* entry that matches it first.
C10_KeepsPlace ==
    [][(last'.op = "register_job" /\ last'.old # None /\ jobs' # jobs) =>
          /\ KeySeq(jobs') = KeySeq(jobs)
          /\ \A n \in DOMAIN jobs :
                jobs'[n].job = IF jobs[n].key = Lower(last'.arg) THEN last'.job
                               ELSE jobs[n].job
          /\ \A x \in RouteInputs :
                route(jobs', x) = IF \E n \in DOMAIN jobs :
                                        FirstMatch(n, x) /\ jobs[n].key = Lower(last'.arg)
                                  THEN last'.job
                                  ELSE route(jobs, x)]_vars

\* the first of two keys was registered again with a new job, and a file name
\* with both keys in it routes to the new job, not to the job of the second key
C10_Witness ==
    /\ last.op = "register_job"
    /\ last.old \notin {None, last.job}
    /\ Len(jobs) = 2
    /\ jobs[1].key = Lower(last.arg)
    /\ jobs[2].job \notin {last.old, last.job}
    /\ \E x \in RouteInputs :
          /\ Matches(1, x) /\ Matches(2, x)
          /\ route(jobs, x) = last.job

====
